---- MODULE Spec2Model ----
(***************************************************************************)
(* Model of the skull/flame logo animation scripts:                        *)
(*   generate_inbetweens.py  - SVG path interpolation and CSS keyframes    *)
(*   combine_animations.py   - raster flame + skull loop of LCM length     *)
(*   create_animated_svg.py  - layered SVG with step keyframes             *)
(*   create_svg_frames.py    - one combined SVG file per frame             *)
(*   create_gif.py           - animated GIFs of the flame and skull files  *)
(*                                                                         *)
(* A path string is a sequence of one-character strings.  A number (a      *)
(* Python float) is an integer counting units of 1/Unit.  Path operands    *)
(* are restricted to multiples of 1/4 with at most two fractional digits   *)
(* and t to multiples of 1/TDen: on those values IEEE double arithmetic    *)
(* is exact, so the integer arithmetic below is the arithmetic of the      *)
(* code, ties of the one-decimal formatting included.                      *)
(***************************************************************************)
EXTENDS Integers, Sequences, FiniteSets, TLC

VARIABLES
    prog,      \* which script this run executes
    pc,        \* position of the run inside the script
    path1,     \* create_inbetween: first path string (the one string of a parse run)
    path2,     \* create_inbetween: second path string
    t,         \* create_inbetween: interpolation factor, in units of 1/TDen
    result,    \* create_inbetween: returned path string
    written,   \* create_inbetween: the number texts rebuild_path appended, in order
    flame_files,     \* the flame files found: per file what it rasterizes to
                     \* (create_combined_animation) or its Asset number
    skull_files,     \* the skull files found, likewise
    flame_frames,    \* loaded flame frames, each named by the index of its file
    skull_frames,    \* loaded skull frames, each named by the index of its file
    combined_frames, \* composed canvases: <<skull frame, flame frame>> pasted on each
    num_frames,      \* the local num_frames of the running script
    loop_i,          \* the loop variable (i, or the position in a file list)
    saved,           \* TRUE once the output file has been written
    frames,          \* generate_svg / create_animated_svg: the frames to embed;
                     \* generate_frames_24fps: the list it builds and returns
    css_classes,     \* emitted class rules that bind a class to an animation name
    css_keyframes,   \* emitted @keyframes rules
    frame_groups,    \* emitted <g> elements
    content,         \* create_animated_svg: the lines of the input file
    has_viewbox,     \* create_animated_svg: the input has an <svg ... viewBox="..."> tag
    assets,          \* create_gif / create_svg_frames: the numbers n of the files "Asset n.svg"
    gif_written,     \* create_gif: the GIF files written, each with its frame count
    numbers,         \* what parse_path_numbers returned
    commands,        \* what get_path_commands returned
    FLAMES           \* generate_inbetweens: the module's list of keyframe paths

----------------------------------------------------------------------------
(* Characters *)

DigitChars == <<"0", "1", "2", "3", "4", "5", "6", "7", "8", "9">>

Digits == {DigitChars[k] : k \in 1..10}

DigitVal(c) == (CHOOSE k \in 1..10 : DigitChars[k] = c) - 1

\* str.isdigit() on the ASCII characters the model uses
IsDigit(c) == c \in Digits

\* the command alphabet of get_path_commands
CmdLetters ==
    {"M", "m", "L", "l", "H", "h", "V", "v", "C", "c", "S", "s",
     "Q", "q", "T", "t", "A", "a", "Z", "z"}

\* str.isalpha() on the ASCII characters the model uses
IsAlpha(c) == c \in CmdLetters \cup {"e", "x"}

----------------------------------------------------------------------------
(* Numbers *)

\* units per 1.0 of a modelled float
Unit == 400

\* denominator of the interpolation factor: t stands for t / TDen
TDen == 4

Abs(n) == IF n < 0 THEN -n ELSE n

\* the larger of two numbers
Max(a, b) == IF a >= b THEN a ELSE b

RECURSIVE IntOf(_)
\* value of a string of decimal digits (empty string: 0)
IntOf(ds) ==
    IF ds = <<>> THEN 0
    ELSE 10 * IntOf(SubSeq(ds, 1, Len(ds) - 1)) + DigitVal(ds[Len(ds)])

RECURSIVE IntStr(_)
\* str(n) for n >= 0
IntStr(n) ==
    IF n < 10 THEN <<DigitChars[n + 1]>>
    ELSE IntStr(n \div 10) \o <<DigitChars[(n % 10) + 1]>>

\* position of the first "." of a numeric token, 0 when it has none
DotPos(x) ==
    IF \E k \in 1..Len(x) : x[k] = "."
    THEN CHOOSE k \in 1..Len(x) : x[k] = "." /\ \A m \in 1..(k - 1) : x[m] # "."
    ELSE 0

\* number of digits after the "." of a numeric token
FracLen(x) == IF DotPos(x) = 0 THEN 0 ELSE Len(x) - DotPos(x)

\* float(x) for a token matched by -?\d*\.?\d+, in units of 1/Unit
\* (exact for tokens with at most two fractional digits)
FloatOf(x) ==
    LET neg  == x[1] = "-"
        body == IF neg THEN SubSeq(x, 2, Len(x)) ELSE x
        dp   == DotPos(body)
        ip   == IF dp = 0 THEN body ELSE SubSeq(body, 1, dp - 1)
        fp   == IF dp = 0 THEN <<>> ELSE SubSeq(body, dp + 1, Len(body))
        f2   == SubSeq(fp \o <<"0", "0">>, 1, 2)
        mag  == IntOf(ip) * Unit + IntOf(f2) * (Unit \div 100)
    IN  IF neg THEN -mag ELSE mag

----------------------------------------------------------------------------
(* parse_path_numbers, get_path_commands *)

RECURSIVE DigitsEnd(_, _)
\* first index >= i of d that holds no digit (Len(d) + 1 when none)
DigitsEnd(d, i) ==
    IF i <= Len(d) /\ IsDigit(d[i]) THEN DigitsEnd(d, i + 1) ELSE i

\* the match of -?\d+\.?\d*: a number has to start with a digit
NumTokenEndDigitFirst(d, i) ==
    LET s  == IF d[i] = "-" THEN i + 1 ELSE i
        e1 == DigitsEnd(d, s)
    IN  IF e1 = s THEN 0
        ELSE IF e1 <= Len(d) /\ d[e1] = "." THEN DigitsEnd(d, e1 + 1)
        ELSE e1

\* re.match(r'-?\d*\.?\d+', d, i): index after the match, 0 when no match at i
NumTokenEnd(d, i) ==
    LET s  == IF d[i] = "-" THEN i + 1 ELSE i
        e1 == DigitsEnd(d, s)
    IN  IF e1 + 1 <= Len(d) /\ d[e1] = "." /\ IsDigit(d[e1 + 1])
        THEN DigitsEnd(d, e1 + 1)
        ELSE IF e1 > s THEN e1 ELSE 0

RECURSIVE FindNums(_, _)
\* re.findall(r'-?\d*\.?\d+', d) scanning from index i: the matched texts
FindNums(d, i) ==
    IF i > Len(d) THEN <<>>
    ELSE LET e == NumTokenEnd(d, i)
         IN  IF e = 0 THEN FindNums(d, i + 1)
             ELSE <<SubSeq(d, i, e - 1)>> \o FindNums(d, e)

parse_path_numbers(d) ==
    LET toks == FindNums(d, 1)
    IN  [k \in 1..Len(toks) |-> FloatOf(toks[k])]

IsCmd(c) == c \in CmdLetters

get_path_commands(d) == SelectSeq(d, IsCmd)

----------------------------------------------------------------------------
(* interpolate_numbers, rebuild_path, create_inbetween *)

\* the blend started from the wrong end: n2 + (n2 - n1) * t
LerpFromEnd(n1, n2, tq) == n2 + ((n2 - n1) * tq) \div TDen

\* n1 + (n2 - n1) * t
Lerp(n1, n2, tq) == n1 + ((n2 - n1) * tq) \div TDen

interpolate_numbers(nums1, nums2, tq) ==
    IF Len(nums1) # Len(nums2)
    THEN IF 2 * tq < TDen THEN nums1 ELSE nums2
    ELSE [k \in 1..Len(nums1) |-> Lerp(nums1[k], nums2[k], tq)]

\* round(|num| * 10) with ties to even, as '%.1f' rounds an exact double
Tenths(num) ==
    LET q == Abs(num) * 10
        r == q \div Unit
        m == q % Unit
    IN  IF 2 * m > Unit THEN r + 1
        ELSE IF 2 * m = Unit THEN r + (r % 2)
        ELSE r

\* str(int(num)) if num == int(num) else f'{num:.1f}'
FormatNum(num) ==
    IF num % Unit = 0
    THEN (IF num < 0 THEN <<"-">> ELSE <<>>) \o IntStr(Abs(num) \div Unit)
    ELSE (IF num < 0 THEN <<"-">> ELSE <<>>)
             \o IntStr(Tenths(num) \div 10)
             \o <<".", DigitChars[(Tenths(num) % 10) + 1]>>

RECURSIVE RebuildEnd(_, _)
\* the inner while loop of rebuild_path: skip digits and dots
RebuildEnd(d, j) ==
    IF j <= Len(d) /\ (IsDigit(d[j]) \/ d[j] = ".") THEN RebuildEnd(d, j + 1) ELSE j

RECURSIVE RebuildFrom(_, _, _, _)
\* the outer while loop of rebuild_path at index i with num_idx numbers used
RebuildFrom(d, new_numbers, i, num_idx) ==
    IF i > Len(d) THEN <<>>
    ELSE IF IsAlpha(d[i])
    THEN <<d[i]>> \o RebuildFrom(d, new_numbers, i + 1, num_idx)
    ELSE IF d[i] = "-" \/ d[i] = "." \/ IsDigit(d[i])
    THEN LET j == RebuildEnd(d, IF d[i] = "-" THEN i + 1 ELSE i)
         IN  IF num_idx < Len(new_numbers)
             THEN FormatNum(new_numbers[num_idx + 1])
                      \o RebuildFrom(d, new_numbers, j, num_idx + 1)
             ELSE RebuildFrom(d, new_numbers, j, num_idx)
    ELSE <<d[i]>> \o RebuildFrom(d, new_numbers, i + 1, num_idx)

rebuild_path(original_d, new_numbers) == RebuildFrom(original_d, new_numbers, 1, 0)

RECURSIVE WrittenFrom(_, _, _, _)
\* the texts the loop of rebuild_path appends for numbers (lines 70 and 72)
WrittenFrom(d, new_numbers, i, num_idx) ==
    IF i > Len(d) THEN <<>>
    ELSE IF IsAlpha(d[i])
    THEN WrittenFrom(d, new_numbers, i + 1, num_idx)
    ELSE IF d[i] = "-" \/ d[i] = "." \/ IsDigit(d[i])
    THEN LET j == RebuildEnd(d, IF d[i] = "-" THEN i + 1 ELSE i)
         IN  IF num_idx < Len(new_numbers)
             THEN <<FormatNum(new_numbers[num_idx + 1])>>
                      \o WrittenFrom(d, new_numbers, j, num_idx + 1)
             ELSE WrittenFrom(d, new_numbers, j, num_idx)
    ELSE WrittenFrom(d, new_numbers, i + 1, num_idx)

\* the test of create_inbetween: same commands and same operand count
Compatible(p1, p2) ==
    /\ get_path_commands(p1) = get_path_commands(p2)
    /\ Len(parse_path_numbers(p1)) = Len(parse_path_numbers(p2))

\* the fallback with the tie t = 0.5 given to the first path
create_inbetween_tie(p1, p2, tq) ==
    IF Compatible(p1, p2)
    THEN rebuild_path(p1, interpolate_numbers(parse_path_numbers(p1),
                                              parse_path_numbers(p2), tq))
    ELSE IF 2 * tq <= TDen THEN p1 ELSE p2

create_inbetween(p1, p2, tq) ==
    IF Compatible(p1, p2)
    THEN rebuild_path(p1, interpolate_numbers(parse_path_numbers(p1),
                                              parse_path_numbers(p2), tq))
    ELSE IF 2 * tq < TDen THEN p1 ELSE p2

\* what the call of rebuild_path inside create_inbetween appends for numbers
inbetween_written(p1, p2, tq) ==
    IF Compatible(p1, p2)
    THEN WrittenFrom(p1, interpolate_numbers(parse_path_numbers(p1),
                                             parse_path_numbers(p2), tq), 1, 0)
    ELSE <<>>

----------------------------------------------------------------------------
(* Inputs of the interpolation run *)

\* longest path, counted in pieces of Pieces
MaxPieces == 2

\* the pieces path strings are put together from
Pieces ==
    { <<"M">>, <<",">>, <<"1">>, <<"-", "2">>, <<".", "5">>, <<".", "2", "5">>,
      <<",", "1">> }

RECURSIVE PathsUpTo(_)
PathsUpTo(n) ==
    IF n = 0 THEN {<<>>}
    ELSE LET P == PathsUpTo(n - 1) IN P \cup {p \o k : p \in P, k \in Pieces}

\* every operand is a multiple of 1/4 written with at most two decimals
Exact(d) ==
    LET toks == FindNums(d, 1)
    IN  \A k \in 1..Len(toks) :
            FracLen(toks[k]) <= 2 /\ FloatOf(toks[k]) % (Unit \div 4) = 0

Paths == {p \in PathsUpTo(MaxPieces) : Exact(p)}

TValues == 0..TDen

interp_vars == <<path1, path2, t, result, written>>

combine_vars ==
    <<flame_files, skull_files, flame_frames, skull_frames, combined_frames>>

local_vars == <<num_frames, loop_i, saved>>

svg_vars == <<frames, css_classes, css_keyframes, frame_groups>>

input_vars == <<content, has_viewbox>>

\* the variables of the interpolation run while another script runs
InterpIdle ==
    path1 = <<>> /\ path2 = <<>> /\ t = 0 /\ result = <<>> /\ written = <<>>

\* the variables of create_combined_animation while another script runs
CombineIdle ==
    /\ flame_files = <<>> /\ skull_files = <<>>
    /\ flame_frames = <<>> /\ skull_frames = <<>>
    /\ combined_frames = <<>>

\* the locals before the script sets them
LocalsUnset == num_frames = 0 /\ loop_i = 0 /\ saved = FALSE

\* the variables of the SVG emitters while another script runs
SvgIdle ==
    /\ frames = <<>> /\ css_classes = <<>> /\ css_keyframes = <<>>
    /\ frame_groups = <<>>

InputIdle == content = <<>> /\ has_viewbox = FALSE

more_vars == <<assets, gif_written, numbers, commands, FLAMES>>

\* the variables of the scripts modelled further down while another one runs
MoreIdle ==
    /\ assets = {} /\ gif_written = <<>>
    /\ numbers = <<>> /\ commands = <<>>
    /\ FLAMES = <<>>

InitInterp ==
    /\ prog = "interp"
    /\ pc = "start"
    /\ path1 \in Paths
    /\ path2 \in Paths
    /\ t = 0
    /\ result = <<>>
    /\ written = <<>>
    /\ CombineIdle /\ LocalsUnset /\ SvgIdle /\ InputIdle /\ MoreIdle

\* one call create_inbetween(path1, path2, t)
CreateInbetween ==
    /\ prog = "interp"
    /\ pc = "start"
    /\ \E tq \in TValues :
          /\ t' = tq
          /\ result' = create_inbetween(path1, path2, tq)
          /\ written' = inbetween_written(path1, path2, tq)
    /\ pc' = "done"
    /\ UNCHANGED <<prog, path1, path2, combine_vars, local_vars, svg_vars, input_vars, more_vars>>

vars == <<prog, pc, interp_vars, combine_vars, local_vars, svg_vars, input_vars, more_vars>>

NextInterp == CreateInbetween

SpecInterp == InitInterp /\ [][NextInterp]_vars

----------------------------------------------------------------------------
(* combine_animations.py: create_combined_animation *)

\* most flame files (Asset numbers <= 12) found by the glob
MaxFlameFiles == 4

\* most skull files (Asset numbers > 12) found by the glob
MaxSkullFiles == 3

\* what svg_to_image_raw gives for a file: some opaque pixels, or none
Rasters == {"drawn", "blank"}

FileLists(n) == UNION {[1..m -> Rasters] : m \in 0..n}

\* get_content_bounds(img) is None
IsEmpty(raster) == raster = "blank"

RECURSIVE gcd(_, _)
\* math.gcd on non-negative integers
gcd(a, b) == IF b = 0 THEN a ELSE gcd(b, a % b)

\* the product, without the division by the gcd
lcm_product(a, b) == Abs(a * b)

\* the longer of the two sequences
lcm_longer(a, b) == Max(a, b)

\* lcm(a, b) where math.gcd(a, b) > 0
lcm(a, b) == Abs(a * b) \div gcd(a, b)

\* a save that tolerates an empty frame list
never_missing(gif_frames) == FALSE

\* gif_frames[0] raises IndexError
first_frame_missing(gif_frames) == Len(gif_frames) = 0

InitCombine ==
    /\ prog = "combine"
    /\ pc = "load_flame"
    /\ flame_files \in FileLists(MaxFlameFiles)
    /\ skull_files \in FileLists(MaxSkullFiles)
    /\ flame_frames = <<>>
    /\ skull_frames = <<>>
    /\ num_frames = 0
    /\ combined_frames = <<>>
    /\ loop_i = 0
    /\ saved = FALSE
    /\ InterpIdle /\ SvgIdle /\ InputIdle /\ MoreIdle

\* one pass of "for ff in flame_files": empty frames are skipped
LoadFlame ==
    /\ prog = "combine" /\ pc = "load_flame"
    /\ loop_i < Len(flame_files)
    /\ flame_frames' = IF IsEmpty(flame_files[loop_i + 1])
                       THEN flame_frames
                       ELSE Append(flame_frames, loop_i + 1)
    /\ loop_i' = loop_i + 1
    /\ UNCHANGED <<prog, pc, interp_vars, svg_vars, input_vars, more_vars, flame_files, skull_files,
                   skull_frames, num_frames, combined_frames, saved>>

\* "for ff in flame_files" is exhausted
FlameLoaded ==
    /\ prog = "combine" /\ pc = "load_flame"
    /\ loop_i = Len(flame_files)
    /\ pc' = "load_skull"
    /\ loop_i' = 0
    /\ UNCHANGED <<prog, interp_vars, svg_vars, input_vars, more_vars, flame_files, skull_files, flame_frames,
                   skull_frames, num_frames, combined_frames, saved>>

\* one pass of "for sf in skull_files": every frame is appended
LoadSkull ==
    /\ prog = "combine" /\ pc = "load_skull"
    /\ loop_i < Len(skull_files)
    /\ skull_frames' = Append(skull_frames, loop_i + 1)
    /\ loop_i' = loop_i + 1
    /\ UNCHANGED <<prog, pc, interp_vars, svg_vars, input_vars, more_vars, flame_files, skull_files,
                   flame_frames, num_frames, combined_frames, saved>>

\* "for sf in skull_files" is exhausted
SkullLoaded ==
    /\ prog = "combine" /\ pc = "load_skull"
    /\ loop_i = Len(skull_files)
    /\ pc' = "lcm"
    /\ loop_i' = 0
    /\ UNCHANGED <<prog, interp_vars, svg_vars, input_vars, more_vars, flame_files, skull_files, flame_frames,
                   skull_frames, num_frames, combined_frames, saved>>

\* num_frames = lcm(len(skull_frames), len(flame_frames));
\* 0 // 0 raises ZeroDivisionError when both sequences are empty
ComputeLcm ==
    /\ prog = "combine" /\ pc = "lcm"
    /\ IF gcd(Len(skull_frames), Len(flame_frames)) = 0
       THEN pc' = "error" /\ UNCHANGED num_frames
       ELSE /\ num_frames' = lcm(Len(skull_frames), Len(flame_frames))
            /\ pc' = "compose"
    /\ UNCHANGED <<prog, interp_vars, svg_vars, input_vars, more_vars, flame_files, skull_files, flame_frames,
                   skull_frames, combined_frames, loop_i, saved>>

\* one pass of "for i in range(num_frames)"; a modulus of 0 raises ZeroDivisionError
Compose ==
    /\ prog = "combine" /\ pc = "compose"
    /\ loop_i < num_frames
    /\ IF Len(skull_frames) = 0 \/ Len(flame_frames) = 0
       THEN pc' = "error" /\ UNCHANGED <<combined_frames, loop_i>>
       ELSE LET skull_idx == loop_i % Len(skull_frames)
                flame_idx == loop_i % Len(flame_frames)
            IN  /\ combined_frames' =
                       Append(combined_frames,
                              <<skull_frames[skull_idx + 1], flame_frames[flame_idx + 1]>>)
                /\ loop_i' = loop_i + 1
                /\ UNCHANGED pc
    /\ UNCHANGED <<prog, interp_vars, svg_vars, input_vars, more_vars, flame_files, skull_files, flame_frames,
                   skull_frames, num_frames, saved>>

\* gif_frames[0].save(...): IndexError on an empty list, else the file is written
Save ==
    /\ prog = "combine" /\ pc = "compose"
    /\ loop_i = num_frames
    /\ IF first_frame_missing(combined_frames)
       THEN pc' = "error" /\ UNCHANGED saved
       ELSE pc' = "done" /\ saved' = TRUE
    /\ UNCHANGED <<prog, interp_vars, svg_vars, input_vars, more_vars, flame_files, skull_files, flame_frames,
                   skull_frames, num_frames, combined_frames, loop_i>>

NextCombine ==
    \/ LoadFlame
    \/ FlameLoaded
    \/ LoadSkull
    \/ SkullLoaded
    \/ ComputeLcm
    \/ Compose
    \/ Save

SpecCombine == InitCombine /\ [][NextCombine]_vars

----------------------------------------------------------------------------
(* CSS step keyframes, as both SVG emitters write them.  A percentage is an *)
(* integer on the grid of its printed precision; a @keyframes rule is a     *)
(* sequence of blocks [at |-> <<p, q>>, opacity |-> 0 or 1].                *)

\* round(n / d) with ties to even, n >= 0 and d > 0
RoundHalfEven(n, d) ==
    LET q == n \div d
        r == n % d
    IN  IF 2 * r > d THEN q + 1
        ELSE IF 2 * r = d THEN q + (q % 2)
        ELSE q

\* f'{k * (100 / n):.2f}', in hundredths of a percent (the double k * (100 / n)
\* rounds as the exact quotient does for every n < 48)
Pct2(k, n) == RoundHalfEven(k * 100 * 100, n)

\* f'{k * (100 / n):.1f}', in tenths of a percent
Pct1(k, n) == RoundHalfEven(k * 100 * 10, n)

Block(p, q, o) == [at |-> <<p, q>>, opacity |-> o]

\* the blocks of a rule that name percentage p
BlocksAt(blocks, p) == {j \in 1..Len(blocks) : p = blocks[j].at[1] \/ p = blocks[j].at[2]}

MaxOf(S) == CHOOSE m \in S : \A n \in S : n <= m

\* the percentages a rule has keyframes at
KeyPcts(blocks) == {blocks[j].at[m] : j \in 1..Len(blocks), m \in 1..2}

\* opacity at time x of a layer animated "infinite step-end" by the rule: the
\* value of the latest keyframe at or before x, where of two blocks naming
\* the same percentage the later one counts; 0 (the class default) before
\* the first keyframe
OpacityAt(blocks, x) ==
    LET ks == {p \in KeyPcts(blocks) : p <= x}
    IN  IF ks = {} THEN 0
        ELSE blocks[MaxOf(BlocksAt(blocks, MaxOf(ks)))].opacity

\* the layer <g class="... k"> is shown at time x: a class rule binds k to an
\* animation, a @keyframes rule of that name exists and gives opacity 1
LayerVisible(k, x) ==
    \E c \in 1..Len(css_classes) :
        /\ css_classes[c].class = k
        /\ \E r \in 1..Len(css_keyframes) :
               /\ css_keyframes[r].name = css_classes[c].animation
               /\ OpacityAt(css_keyframes[r].blocks, x) = 1

----------------------------------------------------------------------------
(* generate_inbetweens.py: generate_svg *)

\* most frames handed to generate_svg
MaxFrames == 5

\* the path strings frames are drawn from
SvgPaths == { <<"M", "1">>, <<"M", "-", "2">> }

\* "100%" on the grid of hundredths of a percent
Full2 == 100 * 100

\* the rule of a middle frame without its closing block
svg_keyframes_open(k, n) ==
    IF k = 0
    THEN <<Block(0, Pct2(k + 1, n), 1), Block(Pct2(k + 1, n), Full2, 0)>>
    ELSE IF k = n - 1
    THEN <<Block(0, Pct2(k, n), 0), Block(Pct2(k, n), Full2, 1)>>
    ELSE <<Block(0, Pct2(k, n), 0), Block(Pct2(k, n), Pct2(k + 1, n), 1)>>

\* the @keyframes rule of frame k (0-indexed) of n
svg_keyframes(k, n) ==
    IF k = 0
    THEN <<Block(0, Pct2(k + 1, n), 1), Block(Pct2(k + 1, n), Full2, 0)>>
    ELSE IF k = n - 1
    THEN <<Block(0, Pct2(k, n), 0), Block(Pct2(k, n), Full2, 1)>>
    ELSE <<Block(0, Pct2(k, n), 0), Block(Pct2(k, n), Pct2(k + 1, n), 1),
           Block(Pct2(k + 1, n), Full2, 0)>>

InitSvg ==
    /\ prog = "svg"
    /\ pc = "svg_start"
    /\ frames \in UNION {[1..m -> SvgPaths] : m \in 0..MaxFrames}
    /\ css_classes = <<>>
    /\ css_keyframes = <<>>
    /\ frame_groups = <<>>
    /\ LocalsUnset
    /\ InterpIdle /\ CombineIdle /\ InputIdle /\ MoreIdle

\* num_frames = len(frames); 100 / num_frames raises ZeroDivisionError for 0
SvgBegin ==
    /\ prog = "svg" /\ pc = "svg_start"
    /\ num_frames' = Len(frames)
    /\ pc' = IF Len(frames) = 0 THEN "error" ELSE "css"
    /\ UNCHANGED <<prog, interp_vars, combine_vars, input_vars, more_vars, svg_vars, loop_i, saved>>

\* one pass of "for i in range(num_frames)": a class rule and a @keyframes rule
SvgCss ==
    /\ prog = "svg" /\ pc = "css"
    /\ loop_i < num_frames
    /\ css_classes' = Append(css_classes, [class |-> loop_i + 1, animation |-> loop_i + 1])
    /\ css_keyframes' =
           Append(css_keyframes,
                  [name |-> loop_i + 1, blocks |-> svg_keyframes(loop_i, num_frames)])
    /\ loop_i' = loop_i + 1
    /\ UNCHANGED <<prog, pc, interp_vars, combine_vars, input_vars, more_vars, frames,
                   frame_groups, num_frames, saved>>

\* "for i, path_d in enumerate(frames)": one <g class="flame f{i+1}"> per frame
SvgGroups ==
    /\ prog = "svg" /\ pc = "css"
    /\ loop_i = num_frames
    /\ frame_groups' = [k \in 1..Len(frames) |-> [class |-> k, body |-> frames[k]]]
    /\ pc' = "write"
    /\ UNCHANGED <<prog, interp_vars, combine_vars, input_vars, more_vars, frames,
                   css_classes, css_keyframes, local_vars>>

\* the document is written to output_path
SvgWrite ==
    /\ prog = "svg" /\ pc = "write"
    /\ saved' = TRUE
    /\ pc' = "done"
    /\ UNCHANGED <<prog, interp_vars, combine_vars, input_vars, more_vars, svg_vars,
                   num_frames, loop_i>>

NextSvg == SvgBegin \/ SvgCss \/ SvgGroups \/ SvgWrite

SpecSvg == InitSvg /\ [][NextSvg]_vars

----------------------------------------------------------------------------
(* create_animated_svg.py: create_animated_svg *)

\* most lines of the input file before its closing </svg>
MaxLines == 9

\* a line that opens a top-level group, and any other line
GroupLine == "  <g>"

OtherLine == "    <path/>"

\* the class rules .frame1 .. .frame8 written out in the style block
HardCodedClasses == 8

\* "100%" on the grid of tenths of a percent
Full1 == 100 * 10

RECURSIVE FrameStartsFrom(_, _)
\* the matches of ^  <g> from line k on
FrameStartsFrom(c, k) ==
    IF k > Len(c) THEN <<>>
    ELSE IF c[k] = GroupLine THEN <<k>> \o FrameStartsFrom(c, k + 1)
    ELSE FrameStartsFrom(c, k + 1)

frame_starts(c) == FrameStartsFrom(c, 1)

\* content[start:end] for every start, end being the next start or </svg>
extract_frames(c) ==
    LET st == frame_starts(c)
    IN  [k \in 1..Len(st) |->
            SubSeq(c, st[k], IF k < Len(st) THEN st[k + 1] - 1 ELSE Len(c))]

\* the @keyframes rule frame{k+1} (k 0-indexed) of n
anim_keyframes(k, n) ==
    <<Block(0, Pct1(k, n), 0), Block(Pct1(k, n), Pct1(k + 1, n), 1),
      Block(Pct1(k + 1, n), Full1, 0)>>

InitAnim ==
    /\ prog = "anim"
    /\ pc = "open"
    /\ content \in UNION {[1..m -> {GroupLine, OtherLine}] : m \in 0..MaxLines}
    /\ has_viewbox \in BOOLEAN
    /\ SvgIdle
    /\ LocalsUnset
    /\ InterpIdle /\ CombineIdle /\ MoreIdle

\* the search for the <svg ... viewBox> tag; the function returns without it
AnimOpen ==
    /\ prog = "anim" /\ pc = "open"
    /\ pc' = IF has_viewbox THEN "extract" ELSE "returned"
    /\ UNCHANGED <<prog, interp_vars, combine_vars, input_vars, more_vars, svg_vars, local_vars>>

\* frame_starts and frames; the function returns with fewer than 2 frames
AnimExtract ==
    /\ prog = "anim" /\ pc = "extract"
    /\ IF Len(frame_starts(content)) < 2
       THEN pc' = "returned" /\ UNCHANGED <<frames, num_frames>>
       ELSE /\ frames' = extract_frames(content)
            /\ num_frames' = Len(extract_frames(content))
            /\ pc' = "style"
    /\ UNCHANGED <<prog, interp_vars, combine_vars, input_vars, more_vars, css_classes,
                   css_keyframes, frame_groups, loop_i, saved>>

\* the head of the document with its class rules
AnimStyle ==
    /\ prog = "anim" /\ pc = "style"
    /\ css_classes' = [k \in 1..HardCodedClasses |-> [class |-> k, animation |-> k]]
    /\ pc' = "keyframes"
    /\ UNCHANGED <<prog, interp_vars, combine_vars, input_vars, more_vars, frames,
                   css_keyframes, frame_groups, local_vars>>

\* one pass of "for i in range(num_frames)": the @keyframes rule frame{i+1}
AnimKeyframes ==
    /\ prog = "anim" /\ pc = "keyframes"
    /\ loop_i < num_frames
    /\ css_keyframes' =
           Append(css_keyframes,
                  [name |-> loop_i + 1, blocks |-> anim_keyframes(loop_i, num_frames)])
    /\ loop_i' = loop_i + 1
    /\ UNCHANGED <<prog, pc, interp_vars, combine_vars, input_vars, more_vars, frames,
                   css_classes, frame_groups, num_frames, saved>>

\* "for i, frame in enumerate(frames)": the group gets class "frame frame{i+1}"
AnimGroups ==
    /\ prog = "anim" /\ pc = "keyframes"
    /\ loop_i = num_frames
    /\ frame_groups' = [k \in 1..Len(frames) |-> [class |-> k, body |-> frames[k]]]
    /\ pc' = "write"
    /\ UNCHANGED <<prog, interp_vars, combine_vars, input_vars, more_vars, frames,
                   css_classes, css_keyframes, local_vars>>

\* the document is written to OUTPUT_FILE
AnimWrite ==
    /\ prog = "anim" /\ pc = "write"
    /\ saved' = TRUE
    /\ pc' = "done"
    /\ UNCHANGED <<prog, interp_vars, combine_vars, input_vars, more_vars, svg_vars,
                   num_frames, loop_i>>

NextAnim ==
    \/ AnimOpen
    \/ AnimExtract
    \/ AnimStyle
    \/ AnimKeyframes
    \/ AnimGroups
    \/ AnimWrite

SpecAnim == InitAnim /\ [][NextAnim]_vars

----------------------------------------------------------------------------
(* Asset discovery, as create_svg_frames.py and create_gif.py do it: the    *)
(* files "Asset n.svg" of SVG_DIR are split at n <= 12 into flame files and *)
(* skull files and sorted by n.  A file is named by its number n.           *)

\* the largest Asset number of a flame file
AssetLimit == 12

\* the Asset numbers a directory may hold: some up to the limit, some above
AssetNumbers == (AssetLimit - MaxFlameFiles + 1)..(AssetLimit + MaxSkullFiles)

RECURSIVE SortedSeq(_)
\* sorted(S, key=natural_sort_key) for files that differ in their number only
SortedSeq(S) ==
    IF S = {} THEN <<>>
    ELSE LET m == CHOOSE x \in S : \A y \in S : x <= y
         IN  <<m>> \o SortedSeq(S \ {m})

\* the files whose number is <= 12, sorted
FlameFilesOf(dir) == SortedSeq({n \in dir : n <= AssetLimit})

\* the files whose number is > 12, sorted
SkullFilesOf(dir) == SortedSeq({n \in dir : n > AssetLimit})

parse_vars == <<numbers, commands>>

----------------------------------------------------------------------------
(* create_svg_frames.py: main *)

InitFrames ==
    /\ prog = "svg_frames"
    /\ pc = "discover"
    /\ assets \in SUBSET AssetNumbers
    /\ gif_written = <<>>
    /\ numbers = <<>> /\ commands = <<>> /\ FLAMES = <<>>
    /\ CombineIdle /\ LocalsUnset
    /\ InterpIdle /\ SvgIdle /\ InputIdle

\* flame_files and skull_files are globbed, filtered and sorted
FramesDiscover ==
    /\ prog = "svg_frames" /\ pc = "discover"
    /\ flame_files' = FlameFilesOf(assets)
    /\ skull_files' = SkullFilesOf(assets)
    /\ pc' = "count"
    /\ UNCHANGED <<prog, interp_vars, svg_vars, input_vars, more_vars, local_vars,
                   flame_frames, skull_frames, combined_frames>>

\* num_frames = len(skull_files)
FramesCount ==
    /\ prog = "svg_frames" /\ pc = "count"
    /\ num_frames' = Len(skull_files)
    /\ pc' = "emit"
    /\ UNCHANGED <<prog, interp_vars, svg_vars, input_vars, more_vars, combine_vars,
                   loop_i, saved>>

\* one pass of "for i in range(num_frames)": frame_{i+1:03d}.svg is written;
\* i % len(flame_files) raises ZeroDivisionError without flame files
FramesEmit ==
    /\ prog = "svg_frames" /\ pc = "emit"
    /\ loop_i < num_frames
    /\ IF Len(flame_files) = 0
       THEN pc' = "error" /\ UNCHANGED <<combined_frames, loop_i>>
       ELSE LET flame_idx == loop_i % Len(flame_files)
                skull_idx == loop_i % Len(skull_files)
            IN  /\ combined_frames' =
                       Append(combined_frames,
                              <<skull_files[skull_idx + 1], flame_files[flame_idx + 1]>>)
                /\ loop_i' = loop_i + 1
                /\ UNCHANGED pc
    /\ UNCHANGED <<prog, interp_vars, svg_vars, input_vars, more_vars, flame_files,
                   skull_files, flame_frames, skull_frames, num_frames, saved>>

\* the loop is exhausted: "Done! {num_frames} SVG frames saved to:" is printed
FramesDone ==
    /\ prog = "svg_frames" /\ pc = "emit"
    /\ loop_i = num_frames
    /\ pc' = "done"
    /\ UNCHANGED <<prog, interp_vars, svg_vars, input_vars, more_vars, combine_vars,
                   local_vars>>

NextFrames == FramesDiscover \/ FramesCount \/ FramesEmit \/ FramesDone

SpecFrames == InitFrames /\ [][NextFrames]_vars

----------------------------------------------------------------------------
(* create_gif.py: main and create_gif *)

\* create_gif(svg_files, output_path): nothing is written for an empty list
\* ("No SVG files provided!"), else one GIF with a frame per file
create_gif(svg_files, output_path, out) ==
    IF svg_files = <<>> THEN out
    ELSE Append(out, [path |-> output_path, frames |-> Len(svg_files)])

InitGif ==
    /\ prog = "gif"
    /\ pc = "discover"
    /\ assets \in SUBSET AssetNumbers
    /\ gif_written = <<>>
    /\ numbers = <<>> /\ commands = <<>> /\ FLAMES = <<>>
    /\ CombineIdle /\ LocalsUnset
    /\ InterpIdle /\ SvgIdle /\ InputIdle

\* the glob is split into flame_only_files and skull_files, both sorted
GifDiscover ==
    /\ prog = "gif" /\ pc = "discover"
    /\ flame_files' = FlameFilesOf(assets)
    /\ skull_files' = SkullFilesOf(assets)
    /\ pc' = "flame"
    /\ UNCHANGED <<prog, interp_vars, svg_vars, input_vars, more_vars, local_vars,
                   flame_frames, skull_frames, combined_frames>>

\* "if flame_only_files:" create_gif(flame_only_files, flame_animation.gif)
GifFlame ==
    /\ prog = "gif" /\ pc = "flame"
    /\ gif_written' = IF flame_files # <<>>
                      THEN create_gif(flame_files, "flame_animation.gif", gif_written)
                      ELSE gif_written
    /\ pc' = "skull"
    /\ UNCHANGED <<prog, interp_vars, svg_vars, input_vars, combine_vars, local_vars,
                   assets, parse_vars, FLAMES>>

\* "if skull_files:" create_gif(skull_files, skull_candle_animation.gif)
GifSkull ==
    /\ prog = "gif" /\ pc = "skull"
    /\ gif_written' = IF skull_files # <<>>
                      THEN create_gif(skull_files, "skull_candle_animation.gif",
                                      gif_written)
                      ELSE gif_written
    /\ pc' = "full"
    /\ UNCHANGED <<prog, interp_vars, svg_vars, input_vars, combine_vars, local_vars,
                   assets, parse_vars, FLAMES>>

\* "if flame_only_files and skull_files:" create_gif(all_files, full_animation.gif)
GifFull ==
    /\ prog = "gif" /\ pc = "full"
    /\ gif_written' = IF flame_files # <<>> /\ skull_files # <<>>
                      THEN create_gif(SortedSeq(assets), "full_animation.gif",
                                      gif_written)
                      ELSE gif_written
    /\ pc' = "report"
    /\ UNCHANGED <<prog, interp_vars, svg_vars, input_vars, combine_vars, local_vars,
                   assets, parse_vars, FLAMES>>

\* "Done! GIF files created in:" is printed and main returns
GifReport ==
    /\ prog = "gif" /\ pc = "report"
    /\ pc' = "done"
    /\ UNCHANGED <<prog, interp_vars, svg_vars, input_vars, more_vars, combine_vars,
                   local_vars>>

NextGif == GifDiscover \/ GifFlame \/ GifSkull \/ GifFull \/ GifReport

\* either of the two scripts that discover the Asset files is run
InitAssets == InitGif \/ InitFrames

NextAssets == NextGif \/ NextFrames

SpecAssets == InitAssets /\ [][NextAssets]_vars

----------------------------------------------------------------------------
(* generate_inbetweens.py: parse_path_numbers, get_path_commands and        *)
(* rebuild_path called on one path string                                   *)

\* longest path string, counted in characters
MaxChars == 4

\* the characters path strings are put together from: two command letters,
\* a letter that is no command, the sign, the dot, two digits, a separator
PathChars == {"M", "z", "e", "-", ".", "1", "5", ","}

RECURSIVE StringsUpTo(_)
StringsUpTo(n) ==
    IF n = 0 THEN {<<>>}
    ELSE LET P == StringsUpTo(n - 1) IN P \cup {Append(p, c) : p \in P, c \in PathChars}

\* every numeric token has at most two fractional digits (FloatOf is exact)
TwoDecimals(d) ==
    LET toks == FindNums(d, 1)
    IN  \A k \in 1..Len(toks) : FracLen(toks[k]) <= 2

\* float(x) accepts x: an optional sign, then digits with at most one dot
\* among them and at least one digit
IsFloatLiteral(x) ==
    LET body == IF x # <<>> /\ x[1] = "-" THEN SubSeq(x, 2, Len(x)) ELSE x
    IN  /\ \A k \in 1..Len(body) : IsDigit(body[k]) \/ body[k] = "."
        /\ Cardinality({k \in 1..Len(body) : body[k] = "."}) <= 1
        /\ \E k \in 1..Len(body) : IsDigit(body[k])

\* a new_numbers list of n whole numbers 1.0, 2.0, ... n.0
Numbered(n) == [k \in 1..n |-> k * Unit]

RECURSIVE ReplacedFrom(_, _)
\* the stretches original_d[i:j] that the loop of rebuild_path takes as one
\* number each, from index i on
ReplacedFrom(d, i) ==
    IF i > Len(d) THEN <<>>
    ELSE IF IsAlpha(d[i]) THEN ReplacedFrom(d, i + 1)
    ELSE IF d[i] = "-" \/ d[i] = "." \/ IsDigit(d[i])
    THEN LET j == RebuildEnd(d, IF d[i] = "-" THEN i + 1 ELSE i)
         IN  <<SubSeq(d, i, j - 1)>> \o ReplacedFrom(d, j)
    ELSE ReplacedFrom(d, i + 1)

InitParse ==
    /\ prog = "parse"
    /\ pc = "start"
    /\ path1 \in {d \in StringsUpTo(MaxChars) : TwoDecimals(d)}
    /\ path2 = <<>> /\ t = 0 /\ result = <<>> /\ written = <<>>
    /\ MoreIdle
    /\ CombineIdle /\ LocalsUnset /\ SvgIdle /\ InputIdle

\* parse_path_numbers(path1) and get_path_commands(path1); float(x) raises
\* ValueError for a text that is no float literal
ParsePath ==
    /\ prog = "parse" /\ pc = "start"
    /\ IF \A k \in 1..Len(FindNums(path1, 1)) : IsFloatLiteral(FindNums(path1, 1)[k])
       THEN /\ numbers' = parse_path_numbers(path1)
            /\ commands' = get_path_commands(path1)
            /\ pc' = "parsed"
       ELSE /\ pc' = "error"
            /\ UNCHANGED parse_vars
    /\ UNCHANGED <<prog, interp_vars, combine_vars, local_vars, svg_vars, input_vars,
                   assets, gif_written, FLAMES>>

\* rebuild_path(path1, new_numbers) with len(numbers) new numbers
RebuildPath ==
    /\ prog = "parse" /\ pc = "parsed"
    /\ result' = rebuild_path(path1, Numbered(Len(numbers)))
    /\ written' = WrittenFrom(path1, Numbered(Len(numbers)), 1, 0)
    /\ pc' = "rebuilt"
    /\ UNCHANGED <<prog, path1, path2, t, combine_vars, local_vars, svg_vars,
                   input_vars, more_vars>>

NextParse == ParsePath \/ RebuildPath

SpecParse == InitParse /\ [][NextParse]_vars

----------------------------------------------------------------------------
(* generate_inbetweens.py: generate_frames_24fps *)

\* most keyframes in FLAMES, besides the list of FlameCount keyframes
MaxKeyframes == 3

\* the number of keyframes the module defines
FlameCount == 14

\* the path strings keyframes are drawn from: three that are compatible with
\* each other and one that is compatible with none of them
GenPaths == { <<"M", "1">>, <<"M", "-", "2">>, <<"M", ".", "5">>, <<"1", "-", "2">> }

\* a list of FlameCount keyframes, neighbours differing
FullFlames ==
    [k \in 1..FlameCount |->
        IF k % 3 = 0 THEN <<"M", "1">>
        ELSE IF k % 3 = 1 THEN <<"M", "-", "2">>
        ELSE <<"M", ".", "5">>]

\* the last in-between blends the last keyframe with itself
next_i_stay(i, n) == IF i + 1 < n THEN i + 1 ELSE i

\* next_i = (i + 1) % len(FLAMES)
next_i(i, n) == (i + 1) % n

InitGen ==
    /\ prog = "gen"
    /\ pc = "loop"
    /\ FLAMES \in UNION {[1..m -> GenPaths] : m \in 0..MaxKeyframes} \cup {FullFlames}
    /\ assets = {} /\ gif_written = <<>> /\ numbers = <<>> /\ commands = <<>>
    /\ SvgIdle
    /\ LocalsUnset
    /\ InterpIdle /\ CombineIdle /\ InputIdle

\* one pass of "for i in range(len(FLAMES))": the keyframe, then its
\* in-between towards the next keyframe at t = 0.5
GenStep ==
    /\ prog = "gen" /\ pc = "loop"
    /\ loop_i < Len(FLAMES)
    /\ LET inbetween == create_inbetween(FLAMES[loop_i + 1],
                                         FLAMES[next_i(loop_i, Len(FLAMES)) + 1],
                                         TDen \div 2)
       IN  frames' = Append(Append(frames, FLAMES[loop_i + 1]), inbetween)
    /\ loop_i' = loop_i + 1
    /\ UNCHANGED <<prog, pc, interp_vars, combine_vars, input_vars, more_vars,
                   css_classes, css_keyframes, frame_groups, num_frames, saved>>

\* the loop is exhausted: return frames
GenReturn ==
    /\ prog = "gen" /\ pc = "loop"
    /\ loop_i = Len(FLAMES)
    /\ pc' = "done"
    /\ UNCHANGED <<prog, interp_vars, combine_vars, input_vars, more_vars, svg_vars,
                   local_vars>>

NextGen == GenStep \/ GenReturn

SpecGen == InitGen /\ [][NextGen]_vars

----------------------------------------------------------------------------
(* Claims about create_inbetween, checked under SpecInterp *)

nums1 == parse_path_numbers(path1)

nums2 == parse_path_numbers(path2)

Called == prog = "interp" /\ pc = "done"

Min(a, b) == IF a <= b THEN a ELSE b

Between(x, a, b) == Min(a, b) <= x /\ x <= Max(a, b)

\* v has at most one decimal place
OneDecimal(v) == v % (Unit \div 10) = 0

\* C1: for compatible paths the returned path has, at every operand position
\* i of the inputs, the operand A[i] + (B[i] - A[i]) * t, printed as an
\* integer literal when whole and rounded to one decimal place otherwise
\* (at t = 0.5: the mean of A[i] and B[i]).
C1_OperandsInterpolated ==
    (Called /\ Compatible(path1, path2)) =>
        LET out == parse_path_numbers(result)
        IN  /\ Len(out) = Len(nums1)
            /\ Len(written) = Len(nums1)
            /\ \A i \in 1..Len(nums1) :
                   LET v == Lerp(nums1[i], nums2[i], t)
                   IN  IF v % Unit = 0
                       THEN FracLen(written[i]) = 0 /\ out[i] = v
                       ELSE FracLen(written[i]) = 1
                            /\ 2 * Abs(out[i] - v) <= Unit \div 10

\* C2: for compatible paths the result at t = 0 has the operands of A and the
\* result at t = 1 has the operands of B: the same number of operands and,
\* position by position, the same values.  "Only the formatting may differ"
\* is read in the claim's favour: a value counts as the same when it is the
\* input operand rounded to one decimal place.
SameUpToFormat(out, nums) ==
    /\ Len(out) = Len(nums)
    /\ \A i \in 1..Len(nums) : 2 * Abs(out[i] - nums[i]) <= Unit \div 10

C2_Endpoints ==
    (Called /\ Compatible(path1, path2)) =>
        /\ t = 0 => SameUpToFormat(parse_path_numbers(result), nums1)
        /\ t = TDen => SameUpToFormat(parse_path_numbers(result), nums2)

\* C3: for incompatible paths the result is A unchanged when t < 0.5 and B
\* unchanged when t >= 0.5, t = 0.5 included; nothing is blended.
C3_DiscreteFallback ==
    (Called /\ ~Compatible(path1, path2)) =>
        /\ 2 * t < TDen => result = path1
        /\ 2 * t >= TDen => result = path2
        /\ written = <<>>

\* an incompatible pair of different paths called at exactly t = 0.5
C3_Witness ==
    /\ Called
    /\ ~Compatible(path1, path2)
    /\ 2 * t = TDen
    /\ path1 # path2
    /\ result = path2

\* C4 as stated: for compatible paths and 0 < t < 1 every operand written
\* into the output, after formatting, lies between the operands of A and B
\* at its position.
C4_NoOvershoot ==
    (Called /\ Compatible(path1, path2) /\ 0 < t /\ t < TDen) =>
        \A i \in 1..Len(written) :
            Between(FloatOf(written[i]), nums1[i], nums2[i])

\* C4 amended: the same, for the positions where the operands of A and B
\* both have at most one decimal place.
C4_NoOvershootOneDecimal ==
    (Called /\ Compatible(path1, path2) /\ 0 < t /\ t < TDen) =>
        /\ Len(written) <= Len(nums1)
        /\ \A i \in 1..Len(written) :
               (OneDecimal(nums1[i]) /\ OneDecimal(nums2[i])) =>
                   Between(FloatOf(written[i]), nums1[i], nums2[i])

\* a blend of two different one-decimal operands that the formatting rounded
C4_Witness ==
    /\ Called
    /\ Compatible(path1, path2)
    /\ 0 < t /\ t < TDen
    /\ \E i \in 1..Len(written) :
           /\ OneDecimal(nums1[i]) /\ OneDecimal(nums2[i])
           /\ nums1[i] # nums2[i]
           /\ FloatOf(written[i]) # Lerp(nums1[i], nums2[i], t)

----------------------------------------------------------------------------
(* Claims about create_combined_animation, checked under SpecCombine *)

Ls == Len(skull_frames)

Lf == Len(flame_frames)

\* both sequences are loaded and num_frames has been computed from them
LcmComputed == prog = "combine" /\ pc \in {"compose", "done"}

\* how many combined frames show the given skull frame / flame frame
SkullShown(f) == Cardinality({k \in 1..Len(combined_frames) : combined_frames[k][1] = f})

FlameShown(f) == Cardinality({k \in 1..Len(combined_frames) : combined_frames[k][2] = f})

\* C5: for positive sequence lengths num_frames is their least common
\* multiple: divisible by both, and no smaller positive integer is; for 11
\* and 8 it is 88.
C5_NumFramesIsLcm ==
    /\ lcm(11, 8) = 88
    /\ (LcmComputed /\ Ls > 0 /\ Lf > 0) =>
           /\ num_frames > 0
           /\ num_frames % Ls = 0
           /\ num_frames % Lf = 0
           /\ \A m \in 1..(num_frames - 1) : ~(m % Ls = 0 /\ m % Lf = 0)

\* two sequences of different lengths with a common factor: the least common
\* multiple is less than the product
C5_Witness ==
    /\ LcmComputed
    /\ Ls > 1 /\ Lf > Ls
    /\ num_frames < Ls * Lf

\* C6: combined frame i shows skull frame i mod Ls and flame frame i mod Lf,
\* and over the finished loop every skull frame is shown num_frames / Ls
\* times and every flame frame num_frames / Lf times, a whole number of
\* cycles each (lengths 8 and 11: 11 and 8 cycles).
C6_WholeCycles ==
    /\ lcm(8, 11) \div 8 = 11 /\ lcm(8, 11) \div 11 = 8
    /\ (prog = "combine" /\ pc = "done") =>
           /\ Len(combined_frames) = num_frames
           /\ \A k \in 0..(num_frames - 1) :
                  combined_frames[k + 1] =
                      <<skull_frames[(k % Ls) + 1], flame_frames[(k % Lf) + 1]>>
           /\ num_frames % Ls = 0
           /\ num_frames % Lf = 0
           /\ \A s \in 1..Ls : SkullShown(skull_frames[s]) = num_frames \div Ls
           /\ \A f \in 1..Lf : FlameShown(flame_frames[f]) = num_frames \div Lf

\* a finished loop in which both sequences cycle more than once
C6_Witness ==
    /\ prog = "combine" /\ pc = "done"
    /\ Ls > 1 /\ Lf > 1 /\ Ls # Lf
    /\ num_frames \div Ls > 1
    /\ num_frames \div Lf > 1

\* C9: when num_frames is computed, and in the indexing after it, neither
\* flame_frames nor skull_frames holds a frame whose raster is fully
\* transparent.
C9_NoEmptyFrames ==
    (prog = "combine" /\ pc \in {"lcm", "compose", "done", "error"}) =>
        /\ \A k \in 1..Lf : ~IsEmpty(flame_files[flame_frames[k]])
        /\ \A k \in 1..Ls : ~IsEmpty(skull_files[skull_frames[k]])

\* C10: a run whose flame or skull sequence is empty never finishes normally
\* and never writes the output; it goes on until it ends in an error.
C10_EmptySequenceFails ==
    /\ (prog = "combine" /\ (pc = "done" \/ saved)) =>
           Ls > 0 /\ Lf > 0 /\ num_frames > 0
    /\ (prog = "combine" /\ pc \in {"lcm", "compose"} /\ (Ls = 0 \/ Lf = 0)) =>
           ENABLED NextCombine
    /\ (prog = "combine" /\ pc = "error") => ~saved /\ (Ls = 0 \/ Lf = 0)

\* a run with flame frames but no skull frame that ended in the error
C10_Witness ==
    /\ prog = "combine" /\ pc = "error"
    /\ Ls = 0 /\ Lf > 0
    /\ ~saved

----------------------------------------------------------------------------
(* Claims about the two SVG emitters.  A step-end layer changes its opacity *)
(* only at the percentages its @keyframes rule names, so what is shown at   *)
(* every instant of the period is decided at those percentages and at the   *)
(* grid points next to them.                                                *)

\* every percentage named by an emitted @keyframes rule, and 0%
Named == {0} \cup UNION {KeyPcts(css_keyframes[r].blocks) : r \in 1..Len(css_keyframes)}

\* the instants checked, for a period of full grid points
Instants(full) ==
    {x \in Named \cup {p + 1 : p \in Named} \cup {p - 1 : p \in Named} : 0 <= x /\ x < full}

\* the layers shown at instant x
ShownAt(x) == {k \in 1..Len(frame_groups) : LayerVisible(frame_groups[k].class, x)}

----------------------------------------------------------------------------
(* Claims about generate_svg, checked under SpecSvg *)

SvgDone == prog = "svg" /\ pc = "done"

\* the two-decimal percentages nearest to k / n of the period
Nearest2(k, n) ==
    {p \in (((k * Full2) \div n) - 1)..(((k * Full2) \div n) + 1) :
        2 * Abs(p * n - k * Full2) <= n}

\* C7 as stated: frame k (0-indexed) of N has opacity 1 exactly on
\* [k/N, (k+1)/N) of the period and 0 elsewhere.
C7_ExactSlots ==
    SvgDone =>
        \A k \in 0..(num_frames - 1) : \A x \in Instants(Full2) :
            LayerVisible(k + 1, x) <=>
                (k * Full2 <= x * num_frames /\ x * num_frames < (k + 1) * Full2)

\* C7 amended: frame k has opacity 1 exactly on [p(k), p(k+1)), p(k) being
\* k/N of the period rounded to two decimals of a percent, with p(0) = 0% and
\* p(N) = 100%; at every instant exactly one frame is visible, the last
\* frame up to the end of the period and frame 0 from its start.
C7_RoundedSlots ==
    SvgDone =>
        /\ Len(css_keyframes) = num_frames
        /\ Len(frame_groups) = num_frames
        /\ \A k \in 0..(num_frames - 1) :
               \E a \in Nearest2(k, num_frames) : \E b \in Nearest2(k + 1, num_frames) :
                   \A x \in Instants(Full2) :
                       LayerVisible(k + 1, x) <=> (a <= x /\ x < b)
        /\ \A x \in Instants(Full2) : Cardinality(ShownAt(x)) = 1
        /\ ShownAt(0) = {1}
        /\ ShownAt(Full2 - 1) = {num_frames}

\* three or more frames: the second frame is already shown just before 1/N
C7_Witness ==
    /\ SvgDone
    /\ num_frames >= 3
    /\ \E x \in Instants(Full2) : ShownAt(x) = {2} /\ x * num_frames < Full2

----------------------------------------------------------------------------
(* Claims about create_animated_svg, checked under SpecAnim *)

AnimDone == prog = "anim" /\ pc = "done"

\* C8: for N >= 2 extracted groups every group is bound to a cyclic step
\* animation of its own: at every instant exactly one of the N layers is
\* visible, the layers become visible in the order 1..N, and no layer stays
\* hidden through the whole period.
C8_OneLayerInOrder ==
    AnimDone =>
        /\ num_frames >= 2
        /\ Len(frame_groups) = num_frames
        /\ \A x \in Instants(Full1) : Cardinality(ShownAt(x)) = 1
        /\ \A k \in 1..num_frames : \E x \in Instants(Full1) : k \in ShownAt(x)
        /\ \A x \in Instants(Full1) : \A y \in Instants(Full1) :
               x <= y => \A j \in ShownAt(x) : \A k \in ShownAt(y) : j <= k

----------------------------------------------------------------------------
(* Claims about create_svg_frames.main, checked under SpecFrames *)

FramesFinished == prog = "svg_frames" /\ pc = "done"

\* C11: for non-empty flame and skull file sequences the number of emitted
\* combined frames is the least common multiple of the two lengths, a
\* multiple of each, frame i uses skull i mod Ls and flame i mod Lf, and
\* every file of either sequence is used in a whole number of cycles.
C11_FramesLoopBoth ==
    (FramesFinished /\ Len(flame_files) > 0 /\ Len(skull_files) > 0) =>
        /\ Len(combined_frames) = lcm(Len(skull_files), Len(flame_files))
        /\ Len(combined_frames) % Len(flame_files) = 0
        /\ Len(combined_frames) % Len(skull_files) = 0
        /\ \A k \in 0..(Len(combined_frames) - 1) :
               combined_frames[k + 1] =
                   <<skull_files[(k % Len(skull_files)) + 1],
                     flame_files[(k % Len(flame_files)) + 1]>>
        /\ \A f \in 1..Len(flame_files) :
               FlameShown(flame_files[f]) = Len(combined_frames) \div Len(flame_files)
        /\ \A f \in 1..Len(skull_files) :
               SkullShown(skull_files[f]) = Len(combined_frames) \div Len(skull_files)

----------------------------------------------------------------------------
(* Claims about asset discovery, checked under SpecAssets *)

\* the GIF files a finished run of create_gif.main has written
GifPaths == {gif_written[k].path : k \in 1..Len(gif_written)}

\* C12: a run of create_gif.main or create_svg_frames.main that found no
\* flame file or no skull file does not finish normally ("Done"): a run
\* that reports success found files of both groups, wrote the output of
\* each group, and wrote at least one frame.
C12_NoAssetsAborts ==
    /\ (prog = "gif" /\ pc = "done") =>
           /\ flame_files # <<>> /\ skull_files # <<>>
           /\ GifPaths = {"flame_animation.gif", "skull_candle_animation.gif",
                          "full_animation.gif"}
    /\ (prog = "svg_frames" /\ pc = "done") =>
           /\ flame_files # <<>> /\ skull_files # <<>>
           /\ Len(combined_frames) > 0

----------------------------------------------------------------------------
(* Claims about parse_path_numbers, get_path_commands and rebuild_path,     *)
(* checked under SpecParse                                                  *)

\* the SVG command alphabet MmLlHhVvCcSsQqTtAaZz
SvgCommandAlphabet ==
    {"M", "m", "L", "l", "H", "h", "V", "v", "C", "c",
     "S", "s", "Q", "q", "T", "t", "A", "a", "Z", "z"}

\* x is a numeric token: an optional leading "-", then digits and at most one
\* "." with at least one digit
NumericToken(x) ==
    LET body == IF x # <<>> /\ x[1] = "-" THEN SubSeq(x, 2, Len(x)) ELSE x
    IN  /\ Cardinality({k \in 1..Len(body) : body[k] \in Digits}) >= 1
        /\ Cardinality({k \in 1..Len(body) : body[k] = "."}) <= 1
        /\ \A k \in 1..Len(body) : body[k] \in Digits \cup {"."}

RECURSIVE LongestTokens(_, _)
\* the numeric tokens of d from index i on, each starting at the first index
\* where a token starts and taken as long as possible, with no separator
\* needed before the next one
LongestTokens(d, i) ==
    IF i > Len(d) THEN <<>>
    ELSE LET ends == {e \in i..Len(d) : NumericToken(SubSeq(d, i, e))}
         IN  IF ends = {} THEN LongestTokens(d, i + 1)
             ELSE <<SubSeq(d, i, MaxOf(ends))>> \o LongestTokens(d, MaxOf(ends) + 1)

\* the decimal value of a numeric token with at most two fractional digits,
\* in units of 1/Unit: its digits read as an integer, scaled by the number
\* of digits after the dot
ValueOf(x) ==
    LET neg  == x[1] = "-"
        dp   == DotPos(x)
        ds   == SelectSeq(x, IsDigit)
        frac == IF dp = 0 THEN 0 ELSE Len(x) - dp
        pow  == IF frac = 0 THEN 1 ELSE IF frac = 1 THEN 10 ELSE 100
        mag  == (IntOf(ds) * Unit) \div pow
    IN  IF neg THEN -mag ELSE mag

\* the positions of d that hold a character of the command alphabet
CommandPositions(d) == SortedSeq({k \in 1..Len(d) : d[k] \in SvgCommandAlphabet})

Parsed == prog = "parse" /\ pc \in {"parsed", "rebuilt"}

\* C13: on every input string neither function raises; parse_path_numbers
\* returns, in order of appearance, the value of each numeric token
\* (optional "-", digits, at most one "."), adjacent tokens needing no
\* separator ("12.5.5" gives 12.5 then 0.5) and other text giving no operand;
\* get_path_commands returns, in order, exactly the characters of the string
\* that are in the SVG command alphabet.
C13_Tokenization ==
    /\ parse_path_numbers(<<"1", "2", ".", "5", ".", "5">>)
           = <<(25 * Unit) \div 2, Unit \div 2>>
    /\ (prog = "parse" /\ pc # "start") =>
           LET toks == LongestTokens(path1, 1)
               at   == CommandPositions(path1)
           IN  /\ pc # "error"
               /\ numbers = [k \in 1..Len(toks) |-> ValueOf(toks[k])]
               /\ commands = [k \in 1..Len(at) |-> path1[at[k]]]

\* a string of digits and dots only, so without any separator, that gives
\* two different operands
C13_Witness ==
    /\ Parsed
    /\ Len(numbers) = 2
    /\ numbers[1] # numbers[2]
    /\ \A k \in 1..Len(path1) : path1[k] \in Digits \cup {"."}

RECURSIVE SubstitutedFrom(_, _, _, _)
\* d from index i on with the k-th numeric token of parse_path_numbers and
\* every later one replaced, where it stands, by the formatted new number of
\* the same rank; all other text kept
SubstitutedFrom(d, new_numbers, i, k) ==
    IF i > Len(d) THEN <<>>
    ELSE LET e == NumTokenEnd(d, i)
         IN  IF e = 0 THEN <<d[i]>> \o SubstitutedFrom(d, new_numbers, i + 1, k)
             ELSE FormatNum(new_numbers[k]) \o SubstitutedFrom(d, new_numbers, e, k + 1)

Rebuilt == prog = "parse" /\ pc = "rebuilt"

\* C14: rebuild_path splits the path string into the same numeric tokens, in
\* the same order, as parse_path_numbers; given as many new numbers as
\* parse_path_numbers found, it writes each of them exactly once, in order,
\* where the original number of the same rank stood, and drops or leaves
\* unused none of them.
C14_SameTokens ==
    Rebuilt =>
        /\ ReplacedFrom(path1, 1) = FindNums(path1, 1)
        /\ written = [k \in 1..Len(numbers) |-> FormatNum(Numbered(Len(numbers))[k])]
        /\ result = SubstitutedFrom(path1, Numbered(Len(numbers)), 1, 1)

----------------------------------------------------------------------------
(* Further claims about create_inbetween, checked under SpecInterp *)

\* C15: for compatible paths the returned path is compatible with A: parsed
\* again it has the command letters of A and as many operands as A, so no
\* two written numbers merge into one and none is lost.  Stated for the
\* calls in which rebuild_path wrote every interpolated number, so that a
\* missing operand can only come from the text of the output.
C15_ResultCompatible ==
    (Called /\ Compatible(path1, path2) /\ Len(written) = Len(nums1)) =>
        /\ get_path_commands(result) = get_path_commands(path1)
        /\ Len(parse_path_numbers(result)) = Len(nums1)

----------------------------------------------------------------------------
(* Claims about generate_frames_24fps, checked under SpecGen *)

GenDone == prog = "gen" /\ pc = "done"

\* the frames generate_frames_24fps has to return for the keyframes ks
ExpectedFrames(ks) ==
    [j \in 1..(2 * Len(ks)) |->
        IF j % 2 = 1 THEN ks[(j + 1) \div 2]
        ELSE create_inbetween(ks[j \div 2], ks[((j \div 2) % Len(ks)) + 1], TDen \div 2)]

\* C16: generate_frames_24fps returns exactly 2 * n frames for the n
\* keyframes of FLAMES (28 for 14): position 2i holds FLAMES[i] unchanged and
\* position 2i+1 holds create_inbetween(FLAMES[i], FLAMES[(i+1) mod n], 0.5),
\* the last in-between blending the last keyframe with the first; no step
\* modifies FLAMES.
C16_TwoFramesPerKeyframe ==
    /\ [](GenDone =>
            /\ Len(frames) = 2 * Len(FLAMES)
            /\ (Len(FLAMES) = 14 => Len(frames) = 28)
            /\ frames = ExpectedFrames(FLAMES))
    /\ [][FLAMES' = FLAMES]_vars

\* a finished run over the 14 keyframes whose last in-between is a blend of
\* the last and the first keyframe, different from both
C16_Witness ==
    /\ GenDone
    /\ Len(FLAMES) = 14
    /\ Len(frames) = 28
    /\ frames[28] # FLAMES[14] /\ frames[28] # FLAMES[1]
    /\ frames[28] = create_inbetween(FLAMES[14], FLAMES[1], 2)

====
